---- MODULE Spec2Model ----
(***************************************************************************)
(* Model of the calendar agent's request-admission policy:                 *)
(*   - the authentication middleware (authenticate, optionalAuth,          *)
(*     requireGoogleIntegration) of middleware/auth.js, and                *)
(*   - the CORS origin policy (allowedOrigins, isOriginAllowed) of app.js. *)
(*                                                                         *)
(* JavaScript strings that the code inspects character by character        *)
(* (header values, origins) are sequences of one-character strings, so     *)
(* startsWith, endsWith, includes, replace, substring, the UUID regular    *)
(* expression and URL parsing are computed rather than assumed.  A value   *)
(* that may be undefined is a record: None, or Some(v).                    *)
(***************************************************************************)
EXTENDS Integers, Sequences, FiniteSets, TLC

VARIABLES
    nodeEnv,         \* process.env.NODE_ENV, fixed for the process lifetime
    req,             \* per request: route, headers, attached principal, progress
    corsOriginsEnv,  \* process.env.CORS_ORIGINS, fixed for the process lifetime
    cors,            \* the current evaluation of corsOptions.origin
    proc             \* the process and its HTTP server: signals, timers, exit

vars == <<nodeEnv, req, corsOriginsEnv, cors, proc>>

-----------------------------------------------------------------------------
(* Optional values (undefined / a value).                                  *)

None == [some |-> FALSE]

Some(v) == [some |-> TRUE, val |-> v]

\* JavaScript truthiness of a possibly-undefined string: '' is falsy.
Truthy(h) == h.some /\ Len(h.val) > 0

-----------------------------------------------------------------------------
(* String primitives, on sequences of characters.                          *)

StartsWith(s, p) == Len(s) >= Len(p) /\ SubSeq(s, 1, Len(p)) = p

EndsWith(s, p) == Len(s) >= Len(p) /\ SubSeq(s, Len(s) - Len(p) + 1, Len(s)) = p

\* String.prototype.substring(n): the characters from index n (0-based) on.
Substring(s, n) == SubSeq(s, n + 1, Len(s))

\* 1-based position of the first occurrence of p in s, 0 when there is none.
IndexOf(s, p) ==
    LET hits == {i \in 1..(Len(s) - Len(p) + 1) : SubSeq(s, i, i + Len(p) - 1) = p}
    IN  IF hits = {} THEN 0 ELSE CHOOSE i \in hits : \A j \in hits : i <= j

\* 1-based position of the last occurrence of p in s, 0 when there is none.
LastIndexOf(s, p) ==
    LET hits == {i \in 1..(Len(s) - Len(p) + 1) : SubSeq(s, i, i + Len(p) - 1) = p}
    IN  IF hits = {} THEN 0 ELSE CHOOSE i \in hits : \A j \in hits : i >= j

Includes(s, p) == IndexOf(s, p) # 0

\* String.prototype.replace(p, r) with a string pattern: the FIRST occurrence only.
ReplaceFirst(s, p, r) ==
    LET i == IndexOf(s, p)
    IN  IF i = 0 THEN s
        ELSE SubSeq(s, 1, i - 1) \o r \o SubSeq(s, i + Len(p), Len(s))

UpperAlpha == <<"A", "B", "C", "D", "E", "F", "G", "H", "I", "J", "K", "L", "M", "N", "O", "P", "Q", "R", "S", "T", "U", "V", "W", "X", "Y", "Z">>

LowerAlpha == <<"a", "b", "c", "d", "e", "f", "g", "h", "i", "j", "k", "l", "m", "n", "o", "p", "q", "r", "s", "t", "u", "v", "w", "x", "y", "z">>

Digits == {"0", "1", "2", "3", "4", "5", "6", "7", "8", "9"}

Range(f) == {f[i] : i \in DOMAIN f}

LowerChar(c) ==
    IF c \in Range(UpperAlpha)
    THEN LowerAlpha[CHOOSE i \in 1..Len(UpperAlpha) : UpperAlpha[i] = c]
    ELSE c

ToLowerCase(s) == [i \in 1..Len(s) |-> LowerChar(s[i])]

IsSpace(c) == c \in {" ", "\t"}

\* String.prototype.trim(): leading and trailing white space removed.
RECURSIVE TrimStart(_)
TrimStart(s) == IF Len(s) > 0 /\ IsSpace(s[1]) THEN TrimStart(Tail(s)) ELSE s

RECURSIVE TrimEnd(_)
TrimEnd(s) ==
    IF Len(s) > 0 /\ IsSpace(s[Len(s)]) THEN TrimEnd(SubSeq(s, 1, Len(s) - 1)) ELSE s

Trim(s) == TrimEnd(TrimStart(s))

\* String.prototype.split(sep) for a one-character separator.
RECURSIVE Split(_, _)
Split(s, sep) ==
    LET i == IndexOf(s, <<sep>>)
    IN  IF i = 0 THEN <<s>>
        ELSE <<SubSeq(s, 1, i - 1)>> \o Split(SubSeq(s, i + 1, Len(s)), sep)

\* The decimal value of a sequence of digits.
DigitValue(c) == CHOOSE n \in 0..9 : <<"0", "1", "2", "3", "4", "5", "6", "7", "8", "9">>[n + 1] = c

RECURSIVE DecimalValue(_)
DecimalValue(s) ==
    IF Len(s) = 0 THEN 0
    ELSE 10 * DecimalValue(SubSeq(s, 1, Len(s) - 1)) + DigitValue(s[Len(s)])

-----------------------------------------------------------------------------
(* The authentication middleware.                                          *)

Middlewares == {"authenticate", "optionalAuth", "requireGoogleIntegration"}

\* The middleware chains the route layer mounts in front of its handlers.
Routes ==
    { <<"authenticate">>,
      <<"optionalAuth">>,
      <<"authenticate", "requireGoogleIntegration">>,
      <<"optionalAuth", "requireGoogleIntegration">>,
      <<"requireGoogleIntegration">> }

\* Requests the server can hold at a time, and those SpecAuth drives.
AllReqs == {"r1", "r2"}

SeqReqs == {"r1"}

NodeEnvs == {"production", "development", "test", "<unset>"}

\* Principals known to the identity provider, and the token each one holds.
UserA == [id |-> <<"0", "a", "1", "b", "2", "c", "3", "d", "-", "0", "0", "0", "0", "-", "4", "0", "0", "0", "-", "8", "0", "0", "0", "-", "0", "0", "0", "0", "0", "0", "0", "0", "0", "0", "0", "a">>, email |-> "a@example.com"]

UserB == [id |-> <<"0", "a", "1", "b", "2", "c", "3", "d", "-", "0", "0", "0", "0", "-", "4", "0", "0", "0", "-", "8", "0", "0", "0", "-", "0", "0", "0", "0", "0", "0", "0", "0", "0", "0", "0", "b">>, email |-> "b@example.com"]

Tokens == {<<"t", "a">>, <<"t", "b">>, <<"t", "x">>, <<>>}

TokenUser(t) ==
    IF t = <<"t", "a">> THEN Some(UserA) ELSE IF t = <<"t", "b">> THEN Some(UserB) ELSE None

\* Values of the Authorization header.
AuthSchemes == {<<"B", "e", "a", "r", "e", "r", " ">>, <<"b", "e", "a", "r", "e", "r", " ">>, <<"B", "a", "s", "i", "c", " ">>, <<"B", "e", "a", "r", "e", "r">>}

AuthorizationHeaders ==
    {None, Some(<<>>)} \cup {Some(s \o t) : s \in AuthSchemes, t \in Tokens}

\* Values of the X-User-Id header.
XUserIdHeaders ==
    { None,
      Some(<<>>),
      Some(<<"1", "2", "3", "e", "4", "5", "6", "7", "-", "e", "8", "9", "b", "-", "4", "2", "d", "3", "-", "a", "4", "5", "6", "-", "4", "2", "6", "6", "1", "4", "1", "7", "4", "0", "0", "0">>),
      Some(<<"1", "2", "3", "E", "4", "5", "6", "7", "-", "E", "8", "9", "B", "-", "4", "2", "D", "3", "-", "A", "4", "5", "6", "-", "4", "2", "6", "6", "1", "4", "1", "7", "4", "0", "0", "0">>),
      Some(<<"n", "o", "t", "-", "a", "-", "u", "u", "i", "d">>),
      Some(<<"1", "2", "3", "e", "4", "5", "6", "7", "-", "e", "8", "9", "b", "-", "4", "2", "d", "3", "-", "a", "4", "5", "6", "-", "4", "2", "6", "6", "1", "4", "1", "7", "4", "0", "0", "g">>),
      Some(<<"1", "2", "3", "e", "4", "5", "6", "7", "-", "e", "8", "9", "b", "-", "4", "2", "d", "3", "-", "a", "4", "5", "6", "-", "4", "2", "6", "6", "1", "4", "1", "7", "4", "0", "0">>),
      Some(<<"1", "2", "3", "e", "4", "5", "6", "7", "-", "e", "8", "9", "b", "-", "4", "2", "d", "3", "-", "a", "4", "5", "6", "-", "4", "2", "6", "6", "1", "4", "1", "7", "4", "0", "0", "0", "0">>),
      Some(<<"1", "2", "3", "e", "4", "5", "6", "7", "e", "8", "9", "b", "-", "4", "2", "d", "3", "-", "a", "4", "5", "6", "-", "4", "2", "6", "6", "1", "4", "1", "7", "4", "0", "0", "0", "0">>),
      Some(<<"x", "1", "2", "3", "e", "4", "5", "6", "7", "-", "e", "8", "9", "b", "-", "4", "2", "d", "3", "-", "a", "4", "5", "6", "-", "4", "2", "6", "6", "1", "4", "1", "7", "4", "0", "0", "0">>) }

\* Messages an error thrown by a collaborator may carry.
InternalMessages == {"fetch failed: ECONNREFUSED 10.0.0.5:443", "Invalid URL"}

\* What awaiting supabase.auth.getUser(token) yields: { data: { user }, error }
\* with either a user or an error (or neither), a value without data.user to
\* destructure, or a thrown error.
GetUserResult(threw, hasData, user, error, msg) ==
    [threw |-> threw, hasData |-> hasData, user |-> user, error |-> error, msg |-> msg]

GetUserResults(token) ==
    (IF TokenUser(token).some
        THEN {GetUserResult(FALSE, TRUE, TokenUser(token), None, "")}
        ELSE {})
    \cup {GetUserResult(FALSE, TRUE, None, Some("invalid JWT"), "")}
    \cup {GetUserResult(FALSE, TRUE, None, None, "")}
    \cup {GetUserResult(FALSE, FALSE, None, None, "")}
    \cup {GetUserResult(TRUE, FALSE, None, None, m) : m \in InternalMessages}

\* What awaiting hasValidGoogleIntegration(userId) yields: a boolean, nothing,
\* or a thrown error.
LookupResults ==
    {[threw |-> FALSE, value |-> Some(b), msg |-> ""] : b \in BOOLEAN}
    \cup {[threw |-> FALSE, value |-> None, msg |-> ""]}
    \cup {[threw |-> TRUE, value |-> None, msg |-> m] : m \in InternalMessages}

\* Errors: an AppError carries a status code, any other error does not (0).
AppError(message, statusCode) ==
    [appError |-> TRUE, status |-> statusCode, message |-> message]

OtherError(message) == [appError |-> FALSE, status |-> 0, message |-> message]

TypeErrorMessage == "Cannot destructure property 'user' of 'data' as it is undefined."

FreeRequest ==
    [ pc            |-> "free",
      route         |-> <<>>,
      idx           |-> 1,
      authorization |-> None,
      xUserId       |-> None,
      userId        |-> None,
      user          |-> None,
      token         |-> None,
      got           |-> None,
      lookupKey     |-> None,
      lookups       |-> 0,
      looked        |-> None,
      nextCalls     |-> [m \in Middlewares |-> 0],
      returned      |-> {},
      rejection     |-> None ]

\* The middleware the request is at.
Current(q) == IF q.idx <= Len(q.route) THEN q.route[q.idx] ELSE "handler"

\* next(): the chain moves on to the following middleware, or to the handler.
CallNext(q, by) ==
    [q EXCEPT !.nextCalls[by] = @ + 1,
              !.returned = @ \cup {by},
              !.idx = @ + 1,
              !.pc = IF q.idx + 1 > Len(q.route) THEN "done" ELSE "ready"]

\* The async middleware's promise rejects with err.
Reject(q, by, err) ==
    [q EXCEPT !.rejection = Some([by |-> by, error |-> err]),
              !.returned = @ \cup {by},
              !.pc = "done"]

\* authHeader && authHeader.startsWith('Bearer ')
IsBearer(authHeader) == Truthy(authHeader) /\ StartsWith(authHeader.val, <<"B", "e", "a", "r", "e", "r", " ">>)

HexDigits == Digits \cup Range(<<"a", "b", "c", "d", "e", "f", "A", "B", "C", "D", "E", "F">>)

\* Variant of UuidRegexTest without the trailing anchor ($).
UuidRegexTestUnanchored(s) ==
    /\ Len(s) >= 36
    /\ \A i \in 1..36 :
          IF i \in {9, 14, 19, 24} THEN s[i] = "-" ELSE s[i] \in HexDigits

\* /^[0-9a-f]{8}-[0-9a-f]{4}-[0-9a-f]{4}-[0-9a-f]{4}-[0-9a-f]{12}$/i .test(s)
UuidRegexTest(s) ==
    /\ Len(s) = 36
    /\ \A i \in 1..36 :
          IF i \in {9, 14, 19, 24} THEN s[i] = "-" ELSE s[i] \in HexDigits

\* Variant of LegacyEnabled that ignores the environment tier.
LegacyEnabledAlways(env) == TRUE

\* process.env.NODE_ENV !== 'production'
LegacyEnabled(env) == env # "production"

\* Variant of AuthenticateCatch that rethrows whatever it caught.
AuthenticateCatchRethrow(error) == error

\* authenticate's catch block: an AppError is rethrown, anything else is
\* replaced by a generic 401.
AuthenticateCatch(error) ==
    IF error.appError THEN error ELSE AppError("Authentication failed", 401)

\* authenticate up to its first suspension point (or to its end, when the
\* request carries no bearer token).
AuthenticateBegin(q, env) ==
    IF IsBearer(q.authorization)
    THEN [q EXCEPT !.pc = "getUser", !.token = Some(Substring(q.authorization.val, 7))]
    ELSE IF LegacyEnabled(env) /\ Truthy(q.xUserId)
    THEN IF ~UuidRegexTest(q.xUserId.val)
         THEN Reject(q, "authenticate",
                     AuthenticateCatch(AppError("Invalid user ID format", 400)))
         ELSE CallNext([q EXCEPT !.userId = q.xUserId], "authenticate")
    ELSE Reject(q, "authenticate",
                AuthenticateCatch(AppError("Authentication required. Please sign in.", 401)))

\* Variant of AuthenticateResume that omits req.user = user.
AuthenticateResumeNoUser(q, res) ==
    LET q1 == [q EXCEPT !.got = Some(res)]
    IN  IF res.threw THEN Reject(q1, "authenticate", AuthenticateCatch(OtherError(res.msg)))
        ELSE IF ~res.hasData
        THEN Reject(q1, "authenticate", AuthenticateCatch(OtherError(TypeErrorMessage)))
        ELSE IF res.error.some \/ ~res.user.some
        THEN Reject(q1, "authenticate",
                    AuthenticateCatch(AppError("Invalid or expired authentication token", 401)))
        ELSE CallNext([q1 EXCEPT !.userId = Some(res.user.val.id)], "authenticate")

\* Variant of AuthenticateResume that falls through to the X-User-Id header
\* when the token is not verified.
AuthenticateResumeFallThrough(q, res) ==
    LET q1 == [q EXCEPT !.got = Some(res)]
    IN  IF res.threw THEN Reject(q1, "authenticate", AuthenticateCatch(OtherError(res.msg)))
        ELSE IF ~res.hasData
        THEN Reject(q1, "authenticate", AuthenticateCatch(OtherError(TypeErrorMessage)))
        ELSE IF res.error.some \/ ~res.user.some
        THEN IF Truthy(q.xUserId) /\ UuidRegexTest(q.xUserId.val)
             THEN CallNext([q1 EXCEPT !.userId = q.xUserId], "authenticate")
             ELSE Reject(q1, "authenticate",
                         AuthenticateCatch(AppError("Invalid or expired authentication token", 401)))
        ELSE CallNext([q1 EXCEPT !.userId = Some(res.user.val.id), !.user = res.user],
                      "authenticate")

\* authenticate from the point where supabase.auth.getUser(token) settles.
AuthenticateResume(q, res) ==
    LET q1 == [q EXCEPT !.got = Some(res)]
    IN  IF res.threw THEN Reject(q1, "authenticate", AuthenticateCatch(OtherError(res.msg)))
        ELSE IF ~res.hasData
        THEN Reject(q1, "authenticate", AuthenticateCatch(OtherError(TypeErrorMessage)))
        ELSE IF res.error.some \/ ~res.user.some
        THEN Reject(q1, "authenticate",
                    AuthenticateCatch(AppError("Invalid or expired authentication token", 401)))
        ELSE CallNext([q1 EXCEPT !.userId = Some(res.user.val.id), !.user = res.user],
                      "authenticate")

\* Variant of OptionalAuthBegin that attaches X-User-Id without the format test.
OptionalAuthBeginNoFormatCheck(q, env) ==
    IF IsBearer(q.authorization)
    THEN [q EXCEPT !.pc = "getUser", !.token = Some(Substring(q.authorization.val, 7))]
    ELSE IF LegacyEnabled(env) /\ Truthy(q.xUserId)
    THEN CallNext([q EXCEPT !.userId = q.xUserId], "optionalAuth")
    ELSE CallNext(q, "optionalAuth")

\* optionalAuth up to its first suspension point (or to its end).
OptionalAuthBegin(q, env) ==
    IF IsBearer(q.authorization)
    THEN [q EXCEPT !.pc = "getUser", !.token = Some(Substring(q.authorization.val, 7))]
    ELSE IF LegacyEnabled(env) /\ Truthy(q.xUserId)
    THEN IF UuidRegexTest(q.xUserId.val)
         THEN CallNext([q EXCEPT !.userId = q.xUserId], "optionalAuth")
         ELSE CallNext(q, "optionalAuth")
    ELSE CallNext(q, "optionalAuth")

\* optionalAuth from the point where supabase.auth.getUser(token) settles; the
\* catch block calls next() as well.
OptionalAuthResume(q, res) ==
    LET q1 == [q EXCEPT !.got = Some(res)]
    IN  IF res.threw \/ ~res.hasData THEN CallNext(q1, "optionalAuth")
        ELSE IF res.user.some
        THEN CallNext([q1 EXCEPT !.userId = Some(res.user.val.id), !.user = res.user],
                      "optionalAuth")
        ELSE CallNext(q1, "optionalAuth")

\* requireGoogleIntegration up to the lookup.
RequireGoogleIntegrationBegin(q) ==
    IF ~Truthy(q.userId)
    THEN Reject(q, "requireGoogleIntegration", AppError("Authentication required", 401))
    ELSE [q EXCEPT !.pc = "lookup", !.lookupKey = q.userId, !.lookups = @ + 1]

\* Variant of RequireGoogleIntegrationResume that rejects on false only
\* (hasIntegration === false).
RequireGoogleIntegrationResumeLoose(q, res) ==
    LET q1 == [q EXCEPT !.looked = Some(res)]
    IN  IF res.threw THEN Reject(q1, "requireGoogleIntegration", OtherError(res.msg))
        ELSE IF res.value.some /\ ~res.value.val
        THEN Reject(q1, "requireGoogleIntegration",
                    AppError("Google account not connected. Please connect your Google account first.", 403))
        ELSE CallNext(q1, "requireGoogleIntegration")

\* requireGoogleIntegration from the point where the lookup settles.
RequireGoogleIntegrationResume(q, res) ==
    LET q1 == [q EXCEPT !.looked = Some(res)]
    IN  IF res.threw THEN Reject(q1, "requireGoogleIntegration", OtherError(res.msg))
        ELSE IF ~(res.value.some /\ res.value.val)
        THEN Reject(q1, "requireGoogleIntegration",
                    AppError("Google account not connected. Please connect your Google account first.", 403))
        ELSE CallNext(q1, "requireGoogleIntegration")

(* Actions on a request r. *)

\* A request arrives: the route layer picks its chain, the caller its headers.
ReceiveFrom(r, routes, authorizations, xUserIds) ==
    /\ req[r].pc = "free"
    /\ \E route \in routes, a \in authorizations, x \in xUserIds :
          req' = [req EXCEPT ![r] = [FreeRequest EXCEPT !.pc = "ready",
                                                        !.route = route,
                                                        !.authorization = a,
                                                        !.xUserId = x]]
    /\ UNCHANGED <<nodeEnv, corsOriginsEnv, cors, proc>>

Receive(r) == ReceiveFrom(r, Routes, AuthorizationHeaders, XUserIdHeaders)

\* The requests of the concurrent specification: the chains that resolve an
\* identity, bearer tokens of both principals and of nobody, and X-User-Id
\* values of UUID length.
ConcRoutes == {route \in Routes : Len(route) = 1 /\ route[1] # "requireGoogleIntegration"}

ConcAuthorizationHeaders ==
    {h \in AuthorizationHeaders : ~h.some \/ (IsBearer(h) /\ Len(h.val) > 7)}

ConcXUserIdHeaders == {h \in XUserIdHeaders : ~h.some \/ Len(h.val) = 36}

ReceiveConcurrent(r) ==
    ReceiveFrom(r, ConcRoutes, ConcAuthorizationHeaders, ConcXUserIdHeaders)

\* The response has been sent (by the handler or by the error handler) and the
\* request context is discarded.
Complete(r) ==
    /\ req[r].pc = "done"
    /\ req' = [req EXCEPT ![r] = FreeRequest]
    /\ UNCHANGED <<nodeEnv, corsOriginsEnv, cors, proc>>

Authenticate(r) ==
    /\ req[r].pc = "ready" /\ Current(req[r]) = "authenticate"
    /\ req' = [req EXCEPT ![r] = AuthenticateBegin(req[r], nodeEnv)]
    /\ UNCHANGED <<nodeEnv, corsOriginsEnv, cors, proc>>

\* Variant of AuthenticateGetUserSettles in which the token is kept in a
\* module-level variable: the provider may answer for the token of any request
\* suspended at the call.
AuthenticateGetUserSettlesSharedToken(r) ==
    /\ req[r].pc = "getUser" /\ Current(req[r]) = "authenticate"
    /\ \E o \in AllReqs :
          /\ req[o].pc = "getUser"
          /\ \E res \in GetUserResults(req[o].token.val) :
                req' = [req EXCEPT ![r] = AuthenticateResume(req[r], res)]
    /\ UNCHANGED <<nodeEnv, corsOriginsEnv, cors, proc>>

AuthenticateGetUserSettles(r) ==
    /\ req[r].pc = "getUser" /\ Current(req[r]) = "authenticate"
    /\ \E res \in GetUserResults(req[r].token.val) :
          req' = [req EXCEPT ![r] = AuthenticateResume(req[r], res)]
    /\ UNCHANGED <<nodeEnv, corsOriginsEnv, cors, proc>>

OptionalAuth(r) ==
    /\ req[r].pc = "ready" /\ Current(req[r]) = "optionalAuth"
    /\ req' = [req EXCEPT ![r] = OptionalAuthBegin(req[r], nodeEnv)]
    /\ UNCHANGED <<nodeEnv, corsOriginsEnv, cors, proc>>

OptionalAuthGetUserSettles(r) ==
    /\ req[r].pc = "getUser" /\ Current(req[r]) = "optionalAuth"
    /\ \E res \in GetUserResults(req[r].token.val) :
          req' = [req EXCEPT ![r] = OptionalAuthResume(req[r], res)]
    /\ UNCHANGED <<nodeEnv, corsOriginsEnv, cors, proc>>

RequireGoogleIntegration(r) ==
    /\ req[r].pc = "ready" /\ Current(req[r]) = "requireGoogleIntegration"
    /\ req' = [req EXCEPT ![r] = RequireGoogleIntegrationBegin(req[r])]
    /\ UNCHANGED <<nodeEnv, corsOriginsEnv, cors, proc>>

RequireGoogleIntegrationLookupSettles(r) ==
    /\ req[r].pc = "lookup" /\ Current(req[r]) = "requireGoogleIntegration"
    /\ \E res \in LookupResults :
          req' = [req EXCEPT ![r] = RequireGoogleIntegrationResume(req[r], res)]
    /\ UNCHANGED <<nodeEnv, corsOriginsEnv, cors, proc>>

-----------------------------------------------------------------------------
(* new URL(input): the parts of the WHATWG URL parser the origin policy    *)
(* reads (whether parsing succeeds, the scheme, the host name).  Covered:  *)
(* scheme recognition, the slashes after a special scheme, credentials,    *)
(* host and port splitting, port validation, forbidden host characters,    *)
(* lower-casing of a special scheme's host and dotted-decimal IPv4 hosts.  *)
(* Not covered, and absent from Origins: IPv6 literals, percent-encoded    *)
(* or non-ASCII hosts, file: URLs, tabs and newlines inside the input, and *)
(* numeric hosts other than four decimal parts.                            *)

AlphaChars == Range(UpperAlpha) \cup Range(LowerAlpha)

SchemeChars == AlphaChars \cup Digits \cup {"+", "-", "."}

SpecialSchemes == {<<"h", "t", "t", "p">>, <<"h", "t", "t", "p", "s">>, <<"w", "s">>, <<"w", "s", "s">>, <<"f", "t", "p">>}

ForbiddenHostChars ==
    {" ", "#", "/", ":", "<", ">", "?", "@", "[", "\\", "]", "^", "|", "%"}

\* s without its leading characters from the set cs.
RECURSIVE SkipLeading(_, _)
SkipLeading(s, cs) ==
    IF Len(s) > 0 /\ s[1] \in cs THEN SkipLeading(Tail(s), cs) ELSE s

\* The prefix of s before its first character from the set cs.
UpTo(s, cs) ==
    LET hits == {i \in 1..Len(s) : s[i] \in cs}
    IN  IF hits = {} THEN s
        ELSE SubSeq(s, 1, (CHOOSE i \in hits : \A j \in hits : i <= j) - 1)

AllDigits(s) == \A i \in 1..Len(s) : s[i] \in Digits

\* A host whose last label is a number is parsed as an IPv4 address.
EndsInANumber(host) ==
    LET labels == Split(host, ".")
        last == labels[Len(labels)]
    IN  Len(last) > 0 /\ AllDigits(last)

ValidIPv4(host) ==
    LET labels == Split(host, ".")
    IN  /\ Len(labels) = 4
        /\ \A i \in 1..4 :
              /\ Len(labels[i]) > 0
              /\ AllDigits(labels[i])
              /\ DecimalValue(labels[i]) <= 255

URLFailure == [ok |-> FALSE, protocol |-> <<>>, hostname |-> <<>>]

\* The authority of a URL: [credentials@]host[:port].
ParseAuthority(scheme, authority) ==
    LET special  == scheme \in SpecialSchemes
        at       == LastIndexOf(authority, <<"@">>)
        hostport == SubSeq(authority, at + 1, Len(authority))
        colon    == IndexOf(hostport, <<":">>)
        host     == IF colon = 0 THEN hostport ELSE SubSeq(hostport, 1, colon - 1)
        port     == IF colon = 0 THEN <<>> ELSE SubSeq(hostport, colon + 1, Len(hostport))
    IN  IF at > 0 /\ Len(hostport) = 0 THEN URLFailure
        ELSE IF Len(host) = 0 /\ (special \/ colon > 0) THEN URLFailure
        ELSE IF ~AllDigits(port) THEN URLFailure
        ELSE IF Len(port) > 0 /\ DecimalValue(port) > 65535 THEN URLFailure
        ELSE IF \E i \in 1..Len(host) : host[i] \in ForbiddenHostChars THEN URLFailure
        ELSE IF special /\ EndsInANumber(host) /\ ~ValidIPv4(host) THEN URLFailure
        ELSE [ok |-> TRUE,
              protocol |-> scheme,
              hostname |-> IF special THEN ToLowerCase(host) ELSE host]

ParseURL(input) ==
    LET s      == Trim(input)
        colon  == IndexOf(s, <<":">>)
        scheme == ToLowerCase(SubSeq(s, 1, colon - 1))
        rest   == SubSeq(s, colon + 1, Len(s))
    IN  IF colon < 2 THEN URLFailure
        ELSE IF s[1] \notin AlphaChars THEN URLFailure
        ELSE IF \E i \in 2..(colon - 1) : s[i] \notin SchemeChars THEN URLFailure
        ELSE IF scheme \in SpecialSchemes
        THEN ParseAuthority(scheme, UpTo(SkipLeading(rest, {"/", "\\"}), {"/", "\\", "?", "#"}))
        ELSE IF StartsWith(rest, <<"/", "/">>)
        THEN ParseAuthority(scheme, UpTo(Substring(rest, 2), {"/", "?", "#"}))
        ELSE [ok |-> TRUE, protocol |-> scheme, hostname |-> <<>>]

-----------------------------------------------------------------------------
(* The CORS origin policy.                                                 *)

DefaultAllowedOrigins ==
    << <<"h", "t", "t", "p", "s", ":", "/", "/", "m", "e", "n", "t", "o", "r", "a", "-", "a", "g", "e", "n", "t", "i", "c", "-", "a", "i", "-", "f", "r", "o", "n", "t", "e", "n", "d", ".", "v", "e", "r", "c", "e", "l", ".", "a", "p", "p">>,
       <<"h", "t", "t", "p", ":", "/", "/", "l", "o", "c", "a", "l", "h", "o", "s", "t", ":", "3", "0", "0", "0">>,
       <<"h", "t", "t", "p", ":", "/", "/", "l", "o", "c", "a", "l", "h", "o", "s", "t", ":", "3", "0", "0", "1">> >>

\* Values of process.env.CORS_ORIGINS.
CorsOriginsEnvs ==
    { None,
      Some(<<>>),
      Some(<<"*">>),
      Some(<<"h", "t", "t", "p", "s", ":", "/", "/", "a", "p", "p", ".", "e", "x", "a", "m", "p", "l", "e", ".", "c", "o", "m", ",", " ", "h", "t", "t", "p", "s", ":", "/", "/", "s", "t", "a", "g", "i", "n", "g", ".", "v", "e", "r", "c", "e", "l", ".", "a", "p", "p">>),
      Some(<<"h", "t", "t", "p", "s", ":", "/", "/", "a", "p", "p", ".", "e", "x", "a", "m", "p", "l", "e", ".", "c", "o", "m", " ", ",", " ", "*", " ">>) }

\* allowedOrigins: CORS_ORIGINS split on commas and trimmed, or the defaults.
AllowedOrigins(env) ==
    IF Truthy(env)
    THEN LET parts == Split(env.val, ",") IN [i \in 1..Len(parts) |-> Trim(parts[i])]
    ELSE DefaultAllowedOrigins

\* Values of the Origin header.
OriginSchemes == {<<"h", "t", "t", "p", "s", ":", "/", "/">>, <<"h", "t", "t", "p", ":", "/", "/">>, <<>>}

OriginHosts ==
    { <<"l", "o", "c", "a", "l", "h", "o", "s", "t">>,
      <<"1", "2", "7", ".", "0", ".", "0", ".", "1">>,
      <<"e", "v", "i", "l", ".", "c", "o", "m">>,
      <<"a", "p", "p", ".", "e", "x", "a", "m", "p", "l", "e", ".", "c", "o", "m">>,
      <<"m", "e", "n", "t", "o", "r", "a", "-", "a", "g", "e", "n", "t", "i", "c", "-", "a", "i", "-", "f", "r", "o", "n", "t", "e", "n", "d", ".", "v", "e", "r", "c", "e", "l", ".", "a", "p", "p">>,
      <<"m", "e", "n", "t", "o", "r", "a", "-", "a", "g", "e", "n", "t", "i", "c", "-", "a", "i", "-", "f", "r", "o", "n", "t", "e", "n", "d", "-", "g", "i", "t", "-", "m", "a", "i", "n", ".", "v", "e", "r", "c", "e", "l", ".", "a", "p", "p">>,
      <<"m", "y", "-", "m", "e", "n", "t", "o", "r", "a", "-", "f", "o", "r", "k", ".", "v", "e", "r", "c", "e", "l", ".", "a", "p", "p">>,
      <<"M", "E", "N", "T", "O", "R", "A", ".", "v", "e", "r", "c", "e", "l", ".", "a", "p", "p">>,
      <<"e", "v", "i", "l", ".", "v", "e", "r", "c", "e", "l", ".", "a", "p", "p">>,
      <<"s", "t", "a", "g", "i", "n", "g", ".", "v", "e", "r", "c", "e", "l", ".", "a", "p", "p">>,
      <<"m", "e", "n", ".", "v", "e", "r", "c", "e", "l", ".", "a", "p", "p", "t", "o", "r", "a", ".", "v", "e", "r", "c", "e", "l", ".", "a", "p", "p">>,
      <<"m", "e", "n", "t", "o", "r", "a", ".", "e", "v", "i", "l", ".", "c", "o", "m">>,
      <<"b", "a", "d", " ", "h", "o", "s", "t", ".", "v", "e", "r", "c", "e", "l", ".", "a", "p", "p">>,
      <<"l", "o", "c", "a", "l", "h", "o", "s", "t", ":", "@", "e", "v", "i", "l", ".", "c", "o", "m">> }

OriginTails ==
    {<<>>, <<":", "3", "0", "0", "0">>, <<":", "3", "0", "0", "1">>, <<":", "8", "o", "8", "0">>, <<":", "3", "0", "0", "0", ".", "v", "e", "r", "c", "e", "l", ".", "a", "p", "p">>, <<"/", ".", "v", "e", "r", "c", "e", "l", ".", "a", "p", "p">>, <<".", "v", "e", "r", "c", "e", "l", ".", "a", "p", "p">>}

Origins ==
    {None} \cup {Some(s \o h \o t) : s \in OriginSchemes, h \in OriginHosts, t \in OriginTails}

\* The calls to the logger made while an origin is evaluated: logger.info in
\* isOriginAllowed, logger.warn and logger.error in corsOptions.origin.
LoggerCalls == {"info", "warn", "error"}

\* The Vercel-deployment rule of isOriginAllowed, its try/catch included: a
\* URL that fails to parse, or a logger.info that throws (failing is the set of
\* logger calls that throw), leaves the rule unmatched.
VercelDeploymentAllowed(origin, failing) ==
    /\ EndsWith(origin, <<".", "v", "e", "r", "c", "e", "l", ".", "a", "p", "p">>)
    /\ LET url == ParseURL(origin)
       IN  /\ url.ok
           /\ LET subdomain == ReplaceFirst(url.hostname, <<".", "v", "e", "r", "c", "e", "l", ".", "a", "p", "p">>, <<>>)
              IN  \/ StartsWith(subdomain, <<"m", "e", "n", "t", "o", "r", "a", "-", "a", "g", "e", "n", "t", "i", "c", "-", "a", "i", "-", "f", "r", "o", "n", "t", "e", "n", "d">>)
                  \/ Includes(subdomain, <<"m", "e", "n", "t", "o", "r", "a">>)
    /\ "info" \notin failing

\* The localhost rule of isOriginAllowed.
LocalhostAllowed(origin) ==
    \/ StartsWith(origin, <<"h", "t", "t", "p", ":", "/", "/", "l", "o", "c", "a", "l", "h", "o", "s", "t", ":">>)
    \/ StartsWith(origin, <<"h", "t", "t", "p", ":", "/", "/", "1", "2", "7", ".", "0", ".", "0", ".", "1", ":">>)

IsOriginAllowed(origin, allowedOrigins, failing) ==
    IF ~Truthy(origin) THEN TRUE
    ELSE IF origin.val \in Range(allowedOrigins) THEN TRUE
    ELSE IF <<"*">> \in Range(allowedOrigins) THEN TRUE
    ELSE IF VercelDeploymentAllowed(origin.val, failing) THEN TRUE
    ELSE IF LocalhostAllowed(origin.val) THEN TRUE
    ELSE FALSE

\* One invocation callback(err, allow) of the cors middleware's callback.
CallbackCall(err, allow) == [err |-> err, allow |-> allow]

\* The catch block of corsOptions.origin: logger.error, then callback(null, false).
\* When logger.error throws, the error leaves the function before the callback.
CorsOriginCatch(failing) ==
    IF "error" \in failing
    THEN [callbacks |-> <<>>, escaped |-> TRUE]
    ELSE [callbacks |-> <<CallbackCall(None, FALSE)>>, escaped |-> FALSE]

\* corsOptions.origin(origin, callback), given what isOriginAllowed returned.
CorsOrigin(permitted, failing) ==
    IF permitted
    THEN [callbacks |-> <<CallbackCall(None, TRUE)>>, escaped |-> FALSE]
    ELSE IF "warn" \in failing
    THEN CorsOriginCatch(failing)
    ELSE [callbacks |-> <<CallbackCall(None, FALSE)>>, escaped |-> FALSE]

NoEvaluation ==
    [phase |-> "idle", origin |-> None, failing |-> {}, allowed |-> FALSE,
     callbacks |-> <<>>, escaped |-> FALSE]

\* A request (preflight or actual) arrives with its Origin header; the logger
\* calls made for it may throw.
OriginArrives ==
    /\ cors.phase = "idle"
    /\ \E o \in Origins, f \in SUBSET LoggerCalls :
          cors' = [NoEvaluation EXCEPT !.phase = "pending", !.origin = o, !.failing = f]
    /\ UNCHANGED <<nodeEnv, req, corsOriginsEnv, proc>>

\* The cors middleware calls corsOptions.origin for the pending Origin header:
\* isOriginAllowed is evaluated and the callback invoked with its decision.
EvaluateOrigin ==
    /\ cors.phase = "pending"
    /\ LET permitted == IsOriginAllowed(cors.origin, AllowedOrigins(corsOriginsEnv),
                                        cors.failing)
           outcome   == CorsOrigin(permitted, cors.failing)
       IN  cors' = [cors EXCEPT !.phase = "evaluated",
                                !.allowed = permitted,
                                !.callbacks = outcome.callbacks,
                                !.escaped = outcome.escaped]
    /\ UNCHANGED <<nodeEnv, req, corsOriginsEnv, proc>>

\* The cors middleware has answered (or the error reached Express) and the
\* evaluation is over.
OriginAnswered ==
    /\ cors.phase = "evaluated"
    /\ cors' = NoEvaluation
    /\ UNCHANGED <<nodeEnv, req, corsOriginsEnv, proc>>

-----------------------------------------------------------------------------
(* Graceful shutdown.  Time advances in ticks of one second.               *)

\* setTimeout(..., 10000): the delay of the forced shutdown, in seconds.
ForcedShutdownDelay == 10

\* Signals delivered to the process, and connections open at a time.
MaxSignals == 2

MaxConnections == 2

Signals == {"SIGTERM", "SIGINT"}

\* The process after app.listen: the server accepts connections, no signal has
\* been received, no timer is armed.
RunningProcess ==
    [ alive     |-> TRUE,
      listening |-> TRUE,
      conns     |-> 0,
      signals   |-> 0,
      closeCbs  |-> <<>>,
      timers    |-> <<>>,
      elapsed   |-> 0,
      exitCode  |-> -1,
      exitBy    |-> "none" ]

\* Variant of CloseCallbackExitCode that always reports success.
CloseCallbackExitCodeAlwaysZero(err) == 0

\* The callback given to server.close: process.exit(1) on an error, else
\* process.exit(0).
CloseCallbackExitCode(err) == IF err THEN 1 ELSE 0

\* Variant of GracefulShutdown that restarts the forced-shutdown timer on every
\* signal (clearTimeout before setTimeout).
GracefulShutdownRestartsTimer(p) ==
    [p EXCEPT !.signals   = @ + 1,
              !.listening = FALSE,
              !.closeCbs  = Append(@, IF p.listening THEN "ok" ELSE "notRunning"),
              !.timers    = <<ForcedShutdownDelay>>]

\* gracefulShutdown(signal): server.close(callback) stops the server from
\* accepting connections and registers the callback for the 'close' event (with
\* ERR_SERVER_NOT_RUNNING when the server is already closing); setTimeout arms
\* one more forced-shutdown timer.
GracefulShutdown(p) ==
    [p EXCEPT !.signals   = @ + 1,
              !.listening = FALSE,
              !.closeCbs  = Append(@, IF p.listening THEN "ok" ELSE "notRunning"),
              !.timers    = Append(@, ForcedShutdownDelay)]

\* process.exit(code).
ProcessExit(p, code, by) ==
    [p EXCEPT !.alive = FALSE, !.exitCode = code, !.exitBy = by]

\* A client connects to the listening server.
ConnectionOpens ==
    /\ proc.alive /\ proc.listening /\ proc.conns < MaxConnections
    /\ proc' = [proc EXCEPT !.conns = @ + 1]
    /\ UNCHANGED <<nodeEnv, req, corsOriginsEnv, cors>>

\* A connection ends.
ConnectionEnds ==
    /\ proc.alive /\ proc.conns > 0
    /\ proc' = [proc EXCEPT !.conns = @ - 1]
    /\ UNCHANGED <<nodeEnv, req, corsOriginsEnv, cors>>

\* SIGTERM or SIGINT is delivered: the handler runs gracefulShutdown.
SignalReceived ==
    /\ proc.alive /\ proc.signals < MaxSignals
    /\ \E signal \in Signals : proc' = GracefulShutdown(proc)
    /\ UNCHANGED <<nodeEnv, req, corsOriginsEnv, cors>>

\* The server, closed and drained of connections, emits 'close': the first
\* registered callback runs and exits the process.
ServerCloseEmitted ==
    /\ proc.alive /\ ~proc.listening /\ proc.conns = 0 /\ Len(proc.closeCbs) > 0
    /\ LET err == Head(proc.closeCbs) # "ok"
       IN  proc' = ProcessExit(proc, CloseCallbackExitCode(err),
                               IF err THEN "closeError" ELSE "closeOk")
    /\ UNCHANGED <<nodeEnv, req, corsOriginsEnv, cors>>

\* One second passes; a timer that is due fires before time moves on.
Tick ==
    /\ proc.alive /\ Len(proc.timers) > 0
    /\ \A i \in 1..Len(proc.timers) : proc.timers[i] > 0
    /\ proc' = [proc EXCEPT !.timers = [i \in 1..Len(proc.timers) |-> proc.timers[i] - 1],
                            !.elapsed = @ + 1]
    /\ UNCHANGED <<nodeEnv, req, corsOriginsEnv, cors>>

\* A forced-shutdown timer is due: its callback calls process.exit(1).
TimerFires ==
    /\ proc.alive
    /\ \E i \in 1..Len(proc.timers) : proc.timers[i] = 0
    /\ proc' = ProcessExit(proc, 1, "timer")
    /\ UNCHANGED <<nodeEnv, req, corsOriginsEnv, cors>>

-----------------------------------------------------------------------------
(* Specifications.                                                         *)

\* The authentication middleware serving requests, one at a time.
Init ==
    /\ nodeEnv \in NodeEnvs
    /\ req = [r \in AllReqs |-> FreeRequest]
    /\ corsOriginsEnv = None
    /\ cors = NoEvaluation
    /\ proc = RunningProcess

Next ==
    \E r \in SeqReqs :
        \/ Receive(r)
        \/ Complete(r)
        \/ Authenticate(r)
        \/ AuthenticateGetUserSettles(r)
        \/ OptionalAuth(r)
        \/ OptionalAuthGetUserSettles(r)
        \/ RequireGoogleIntegration(r)
        \/ RequireGoogleIntegrationLookupSettles(r)

Spec == Init /\ [][Next]_vars

\* The authentication middleware serving requests concurrently: the steps of
\* the requests interleave at the await of the identity-provider call.
InitConc ==
    /\ nodeEnv \in {"production", "development"}
    /\ req = [r \in AllReqs |-> FreeRequest]
    /\ corsOriginsEnv = None
    /\ cors = NoEvaluation
    /\ proc = RunningProcess

NextConc ==
    \E r \in AllReqs :
        \/ ReceiveConcurrent(r)
        \/ Complete(r)
        \/ Authenticate(r)
        \/ AuthenticateGetUserSettles(r)
        \/ OptionalAuth(r)
        \/ OptionalAuthGetUserSettles(r)

SpecConc == InitConc /\ [][NextConc]_vars

\* The process from start-up to exit.  The event loop keeps running: time
\* passes, due timers fire and an emitted 'close' event is delivered.
\* Connections may stay open for ever.
InitShutdown ==
    /\ nodeEnv = "production"
    /\ req = [r \in AllReqs |-> FreeRequest]
    /\ corsOriginsEnv = None
    /\ cors = NoEvaluation
    /\ proc = RunningProcess

NextShutdown ==
    \/ ConnectionOpens
    \/ ConnectionEnds
    \/ SignalReceived
    \/ ServerCloseEmitted
    \/ Tick
    \/ TimerFires

SpecShutdown ==
    /\ InitShutdown
    /\ [][NextShutdown]_vars
    /\ WF_vars(Tick)
    /\ WF_vars(TimerFires)
    /\ WF_vars(ServerCloseEmitted)

\* The origin policy under each configuration of the allow-list.
InitOrigin ==
    /\ nodeEnv = "production"
    /\ req = [r \in AllReqs |-> FreeRequest]
    /\ corsOriginsEnv \in CorsOriginsEnvs
    /\ cors = NoEvaluation
    /\ proc = RunningProcess

NextOrigin == OriginArrives \/ EvaluateOrigin \/ OriginAnswered

SpecOrigin == InitOrigin /\ [][NextOrigin]_vars

-----------------------------------------------------------------------------
(* Properties of the authentication middleware (checked under Spec).       *)

\* The request's Authorization header starts with 'Bearer '.
BearerPresented(q) ==
    /\ q.authorization.some
    /\ Len(q.authorization.val) >= 7
    /\ SubSeq(q.authorization.val, 1, 7) = <<"B", "e", "a", "r", "e", "r", " ">>

\* The 8-4-4-4-12 hexadecimal UUID format, stated group by group.
IsHexGroup(g, n) ==
    /\ Len(g) = n
    /\ \A i \in 1..Len(g) : LowerChar(g[i]) \in Digits \cup {"a", "b", "c", "d", "e", "f"}

IsUuidFormat(s) ==
    LET groups == Split(s, "-")
    IN  /\ Len(groups) = 5
        /\ IsHexGroup(groups[1], 8)
        /\ IsHexGroup(groups[2], 4)
        /\ IsHexGroup(groups[3], 4)
        /\ IsHexGroup(groups[4], 4)
        /\ IsHexGroup(groups[5], 12)

\* The provider returned a principal and no error.
ProviderReturnedPrincipal(res) ==
    ~res.threw /\ res.hasData /\ res.user.some /\ ~res.error.some

\* The provider call raised, or its result could not be read.
ProviderFailedUnexpectedly(res) == res.threw \/ ~res.hasData

Returned(q, m) == m \in q.returned

RejectedBy(q, m) == q.rejection.some /\ q.rejection.val.by = m

RejectedWithStatus(q, m, status) ==
    /\ RejectedBy(q, m)
    /\ q.rejection.val.error.appError
    /\ q.rejection.val.error.status = status

NoPrincipal(q) == q.userId = None /\ q.user = None

\* C1: a bearer request for which the provider returns principal U and no error
\* gets U attached (userId = U.id, user = U) and next called exactly once, with
\* no rejection, whatever the environment tier and the X-User-Id header.
C1_BearerSuccessAttaches ==
    \A r \in AllReqs :
        LET q == req[r]
        IN  (/\ Returned(q, "authenticate")
             /\ BearerPresented(q)
             /\ q.got.some
             /\ ProviderReturnedPrincipal(q.got.val))
            => /\ q.userId = Some(q.got.val.user.val.id)
               /\ q.user = q.got.val.user
               /\ q.nextCalls["authenticate"] = 1
               /\ ~RejectedBy(q, "authenticate")

C1_Witness ==
    \E r \in AllReqs :
        LET q == req[r]
        IN  /\ Returned(q, "authenticate")
            /\ BearerPresented(q)
            /\ q.got.some
            /\ ProviderReturnedPrincipal(q.got.val)
            /\ q.user = Some(UserB)
            /\ nodeEnv = "development"
            /\ q.xUserId.some
            /\ IsUuidFormat(q.xUserId.val)

\* C2: a bearer request for which verification fails or yields no principal is
\* rejected with 401, next is never called and no principal is attached, even
\* with a well-formed X-User-Id outside production.
C2_BearerFailureRejects401 ==
    \A r \in AllReqs :
        LET q == req[r]
        IN  (/\ Returned(q, "authenticate")
             /\ BearerPresented(q)
             /\ q.got.some
             /\ ~ProviderReturnedPrincipal(q.got.val))
            => /\ RejectedWithStatus(q, "authenticate", 401)
               /\ q.nextCalls["authenticate"] = 0
               /\ NoPrincipal(q)

C2_Witness ==
    \E r \in AllReqs :
        LET q == req[r]
        IN  /\ Returned(q, "authenticate")
            /\ BearerPresented(q)
            /\ q.got.some
            /\ q.got.val.hasData
            /\ ~q.got.val.user.some
            /\ nodeEnv = "development"
            /\ q.xUserId.some
            /\ IsUuidFormat(q.xUserId.val)
            /\ RejectedWithStatus(q, "authenticate", 401)

\* C3: in production a request without a bearer token is rejected with 401 and
\* gets no principal, whatever its X-User-Id header.
C3_ProductionNoLegacy ==
    \A r \in AllReqs :
        LET q == req[r]
        IN  (/\ Returned(q, "authenticate")
             /\ nodeEnv = "production"
             /\ ~BearerPresented(q))
            => /\ RejectedWithStatus(q, "authenticate", 401)
               /\ q.nextCalls["authenticate"] = 0
               /\ NoPrincipal(q)

C3_Witness ==
    \E r \in AllReqs :
        LET q == req[r]
        IN  /\ Returned(q, "authenticate")
            /\ nodeEnv = "production"
            /\ ~BearerPresented(q)
            /\ q.xUserId.some
            /\ IsUuidFormat(q.xUserId.val)
            /\ RejectedWithStatus(q, "authenticate", 401)

\* What C4 requires of a request that took the X-User-Id path with value x.
LegacyOutcome(q, x) ==
    IF ~IsUuidFormat(x)
    THEN /\ RejectedWithStatus(q, "authenticate", 400)
         /\ q.nextCalls["authenticate"] = 0
         /\ NoPrincipal(q)
    ELSE /\ q.userId = Some(x)
         /\ q.nextCalls["authenticate"] = 1
         /\ ~RejectedBy(q, "authenticate")

\* C4 as stated: outside production, without a bearer token, a PRESENT X-User-Id
\* that is not a UUID is rejected with 400 (no next, no principal) and one that
\* is a UUID is attached as the principal's id, with next called.
C4_PresentHeader ==
    \A r \in AllReqs :
        LET q == req[r]
        IN  (/\ Returned(q, "authenticate")
             /\ nodeEnv # "production"
             /\ ~BearerPresented(q)
             /\ q.xUserId.some)
            => LegacyOutcome(q, q.xUserId.val)

\* C4 as amended: the same for a present and NON-EMPTY X-User-Id.
C4_NonEmptyHeader ==
    \A r \in AllReqs :
        LET q == req[r]
        IN  (/\ Returned(q, "authenticate")
             /\ nodeEnv # "production"
             /\ ~BearerPresented(q)
             /\ q.xUserId.some
             /\ Len(q.xUserId.val) > 0)
            => LegacyOutcome(q, q.xUserId.val)

C4_Witness ==
    \E r \in AllReqs :
        LET q == req[r]
        IN  /\ Returned(q, "authenticate")
            /\ nodeEnv # "production"
            /\ ~BearerPresented(q)
            /\ q.xUserId.some
            /\ Len(q.xUserId.val) > 36
            /\ RejectedWithStatus(q, "authenticate", 400)

\* The request's credentials are missing or invalid.
CredentialsInvalid(q) ==
    \/ BearerPresented(q) /\ q.got.some /\ ~ProviderReturnedPrincipal(q.got.val)
    \/ /\ ~BearerPresented(q)
       /\ (nodeEnv = "production" \/ ~q.xUserId.some \/ ~IsUuidFormat(q.xUserId.val))

\* C5: with missing or invalid credentials optionalAuth calls next, never
\* rejects, and leaves no principal attached.
C5_OptionalAuthAnonymous ==
    \A r \in AllReqs :
        LET q == req[r]
        IN  (Returned(q, "optionalAuth") /\ CredentialsInvalid(q))
            => /\ q.nextCalls["optionalAuth"] = 1
               /\ ~RejectedBy(q, "optionalAuth")
               /\ NoPrincipal(q)

C5_Witness ==
    \E r \in AllReqs :
        LET q == req[r]
        IN  /\ Returned(q, "optionalAuth")
            /\ BearerPresented(q)
            /\ q.got.some
            /\ q.got.val.threw
            /\ q.nextCalls["optionalAuth"] = 1

\* The lookup returned true.
LookupTrue(res) == ~res.threw /\ res.value = Some(TRUE)

\* C6: requireGoogleIntegration rejects with 401 without looking anything up
\* when no principal is resolved, rejects with 403 when the lookup for the
\* principal's id returns false or nothing, and calls next exactly once,
\* without rejecting, only when the lookup returns true.
C6_IntegrationGate ==
    \A r \in AllReqs :
        LET q == req[r]
            m == "requireGoogleIntegration"
        IN  /\ (Returned(q, m) /\ q.userId = None)
               => RejectedWithStatus(q, m, 401) /\ q.lookups = 0 /\ q.nextCalls[m] = 0
            /\ (q.looked.some /\ ~q.looked.val.threw /\ ~LookupTrue(q.looked.val))
               => /\ RejectedWithStatus(q, m, 403)
                  /\ q.nextCalls[m] = 0
                  /\ q.lookupKey = q.userId
            /\ (q.looked.some /\ LookupTrue(q.looked.val))
               => q.nextCalls[m] = 1 /\ ~RejectedBy(q, m) /\ q.lookupKey = q.userId
            /\ q.nextCalls[m] > 0
               => q.looked.some /\ LookupTrue(q.looked.val) /\ q.nextCalls[m] = 1

C6_Witness ==
    \E r \in AllReqs :
        LET q == req[r]
        IN  /\ q.route = <<"authenticate", "requireGoogleIntegration">>
            /\ q.looked.some
            /\ q.looked.val.value = None
            /\ ~q.looked.val.threw
            /\ RejectedWithStatus(q, "requireGoogleIntegration", 403)

\* The message of the error that was raised inside authenticate.
RaisedMessage(res) == IF res.threw THEN res.msg ELSE TypeErrorMessage

\* C7: an unexpected error inside authenticate ends in a 401 with a generic
\* message; the message of the original error is not in the rejection and next
\* is not called.
C7_UnexpectedErrorNormalized ==
    \A r \in AllReqs :
        LET q == req[r]
        IN  (/\ Returned(q, "authenticate")
             /\ q.got.some
             /\ ProviderFailedUnexpectedly(q.got.val))
            => /\ RejectedWithStatus(q, "authenticate", 401)
               /\ q.rejection.val.error.message = "Authentication failed"
               /\ q.rejection.val.error.message # RaisedMessage(q.got.val)
               /\ q.nextCalls["authenticate"] = 0

C7_Witness ==
    \E r \in AllReqs :
        LET q == req[r]
        IN  /\ Returned(q, "authenticate")
            /\ q.got.some
            /\ q.got.val.threw
            /\ q.got.val.msg = "Invalid URL"
            /\ RejectedWithStatus(q, "authenticate", 401)

-----------------------------------------------------------------------------
(* Properties of the origin policy (checked under SpecOrigin).             *)

ConfiguredOrigins == Range(AllowedOrigins(corsOriginsEnv))

WildcardConfigured == <<"*">> \in ConfiguredOrigins

ProjectToken == <<"m", "e", "n", "t", "o", "r", "a">>

VercelSuffix == <<".", "v", "e", "r", "c", "e", "l", ".", "a", "p", "p">>

\* The origin has the form https://<anything>.vercel.app.
HttpsVercelForm(o) ==
    /\ Len(o) >= Len(<<"h", "t", "t", "p", "s", ":", "/", "/">>) + Len(VercelSuffix)
    /\ SubSeq(o, 1, Len(<<"h", "t", "t", "p", "s", ":", "/", "/">>)) = <<"h", "t", "t", "p", "s", ":", "/", "/">>
    /\ SubSeq(o, Len(o) - Len(VercelSuffix) + 1, Len(o)) = VercelSuffix

\* The <anything> of such an origin.
VercelFormSubdomain(o) == SubSeq(o, Len(<<"h", "t", "t", "p", "s", ":", "/", "/">>) + 1, Len(o) - Len(VercelSuffix))

\* The origin's host is under .vercel.app and its subdomain contains the token.
VercelHostWithToken(o) ==
    LET url == ParseURL(o)
        h   == url.hostname
    IN  /\ url.ok
        /\ Len(h) > Len(VercelSuffix)
        /\ SubSeq(h, Len(h) - Len(VercelSuffix) + 1, Len(h)) = VercelSuffix
        /\ Includes(SubSeq(h, 1, Len(h) - Len(VercelSuffix)), ProjectToken)

\* The origin has the http scheme and its host is exactly localhost or 127.0.0.1.
HttpLoopback(o) ==
    LET url == ParseURL(o)
    IN  /\ url.ok
        /\ url.protocol = <<"h", "t", "t", "p">>
        /\ url.hostname \in {<<"l", "o", "c", "a", "l", "h", "o", "s", "t">>, <<"1", "2", "7", ".", "0", ".", "0", ".", "1">>}

\* C8: an origin https://<anything>.vercel.app whose subdomain does not contain
\* the project token (in either letter case) is denied unless the wildcard is
\* configured.  Read in the claim's favour: an origin that is itself a member of
\* the allow-list is set aside.
C8_VercelWithoutTokenDenied ==
    (/\ cors.phase = "evaluated"
     /\ cors.origin.some
     /\ HttpsVercelForm(cors.origin.val)
     /\ ~Includes(ToLowerCase(VercelFormSubdomain(cors.origin.val)), ProjectToken)
     /\ ~WildcardConfigured
     /\ cors.origin.val \notin ConfiguredOrigins)
    => ~cors.allowed

\* C9: an origin that cannot be parsed as a URL is denied.  Read in the claim's
\* favour: the empty origin, a configured wildcard and an origin that is itself
\* a member of the allow-list are set aside.
C9_UnparseableDenied ==
    (/\ cors.phase = "evaluated"
     /\ cors.origin.some
     /\ Len(cors.origin.val) > 0
     /\ ~ParseURL(cors.origin.val).ok
     /\ ~WildcardConfigured
     /\ cors.origin.val \notin ConfiguredOrigins)
    => ~cors.allowed

\* C10: without the wildcard, an origin is permitted only if it is absent, an
\* exact member of the allow-list, has a host under .vercel.app whose subdomain
\* contains the project token, or has the http scheme with host exactly
\* localhost or 127.0.0.1.  Read in the claim's favour: the empty origin counts
\* as absent, and origins that fail to parse (the subject of C9) are set aside.
C10_PermittedOnlyByARule ==
    (/\ cors.phase = "evaluated"
     /\ ~WildcardConfigured
     /\ cors.allowed
     /\ Truthy(cors.origin)
     /\ ParseURL(cors.origin.val).ok)
    => \/ cors.origin.val \in ConfiguredOrigins
       \/ VercelHostWithToken(cors.origin.val)
       \/ HttpLoopback(cors.origin.val)

\* C11: every evaluation by corsOptions.origin invokes the callback exactly
\* once, never with an error: with (null, true) when isOriginAllowed permits and
\* with (null, false) otherwise, also when a logger call throws during the
\* evaluation; no error leaves the function.
C11_CallbackExactlyOnce ==
    cors.phase = "evaluated"
    => /\ Len(cors.callbacks) = 1
       /\ cors.callbacks[1] = CallbackCall(None, cors.allowed)
       /\ ~cors.escaped

-----------------------------------------------------------------------------
(* Properties of concurrently handled requests (checked under SpecConc).   *)

\* The bearer token the request itself presented.
OwnToken(q) == SubSeq(q.authorization.val, 8, Len(q.authorization.val))

\* The principal attached to the request is the one its own credentials
\* resolve to: the owner of its own bearer token, or its own X-User-Id.
OwnPrincipal(q) ==
    /\ q.user.some
       => /\ BearerPresented(q)
          /\ q.user = TokenUser(OwnToken(q))
          /\ q.userId = Some(q.user.val.id)
    /\ (q.userId.some /\ ~q.user.some)
       => /\ ~BearerPresented(q)
          /\ q.userId = q.xUserId

\* A step writes the context of at most one request, and never the
\* environment tier.
WritesOneRequest ==
    /\ nodeEnv' = nodeEnv
    /\ \A r, o \in AllReqs : (req'[r] # req[r] /\ o # r) => req'[o] = req[o]

-----------------------------------------------------------------------------
(* Properties of the shutdown (checked under SpecShutdown).                *)

\* No more than the forced-shutdown delay has passed since the first signal,
\* and an exit has code 0 exactly when the 'close' callback ran without an
\* error, and code 1 otherwise.
ShutdownSafety ==
    /\ proc.elapsed <= ForcedShutdownDelay
    /\ ~proc.alive
       => /\ proc.signals > 0
          /\ proc.exitBy \in {"closeOk", "closeError", "timer"}
          /\ proc.exitCode = IF proc.exitBy = "closeOk" THEN 0 ELSE 1

\* C13: after SIGTERM or SIGINT (a second signal during the shutdown included)
\* the process eventually exits, no later than when the 10-second timer armed
\* by the first signal fires; with code 0 only if server.close completed
\* without error before that, with code 1 otherwise.
C13_ShutdownExits ==
    /\ []ShutdownSafety
    /\ (proc.signals > 0) ~> ~proc.alive

\* A second signal arrived during the shutdown, connections drained after
\* some seconds and the process exited with code 0.
C13_Witness ==
    /\ ~proc.alive
    /\ proc.signals = 2
    /\ proc.elapsed > 0
    /\ proc.exitCode = 0

====
